---------------------------- MODULE Spec2Model ----------------------------
(***************************************************************************)
(* Action recorder (juud-8/pen_pal): the recorder page, the JSON and PDF   *)
(* exports, the shared-recording timeline and the recording-session store. *)
(*                                                                         *)
(* An ISO-8601 timestamp string is represented by the instant it denotes,  *)
(* in milliseconds.  An absent optional field of an action is a field that *)
(* is not in the DOMAIN of the record.                                     *)
(***************************************************************************)
EXTENDS Integers, Sequences, FiniteSets, TLC

VARIABLES
    \* client/src/pages/Home.tsx, ActionRecorder, InteractionArea
    isRecording,        \* useState(false)
    actions,            \* useState<RecordedAction[]>([])
    title,              \* useState('')
    description,        \* useState('')
    saveDialogOpen,     \* useState(false)
    selectedRecording,  \* useState<RecordingSession | null>(null)
    showCaptureModal,   \* ActionRecorder: useState(false)
    capturedHtml,       \* ActionRecorder: useState('')
    now,                \* the wall clock read by new Date()
    sink,               \* what save() was last handed: content, extension, mime type
    lastOp,             \* the handler that ran last, with its input
    triggeredRecording, \* history: isRecording as it was when the open capture dialog was triggered
    \* server/storage.ts, server/routes.ts
    sessions,           \* the recording_sessions table: id -> row
    response,           \* the last HTTP response: route, id, status and body
    memSessions,        \* MemStorage.recordingSessions, given the same calls
    memResponse,        \* the response of the same route over MemStorage
    \* Home.tsx / SharedRecording.tsx: exportToPdf
    pdfPc,              \* where the export is: idle, import1, import2, render, done, failed
    pdfActions,         \* the actions array the running export closed over
    pdfDoc,             \* the jsPDF document: pages, each a sequence of drawn items
    pdfI,               \* the capture loop's index i (0-based)
    lastPosition,       \* lastAutoTable.finalY || startY
    outcome,            \* per processed capture: ok, render (html2canvas threw), image (addImage threw)
    bodyContainers,     \* the off-screen containers attached to document.body
    pdfRows,            \* tableData, the body of the actions table
    \* SharedRecording page (timeline), StepCard
    recording,          \* useState<RecordingSession | null>(null): <<>> or <<session>>
    totalDurationSeconds, \* useMemo
    actionTimings,      \* useMemo
    stepElapsed,        \* what each StepCard's getTimeElapsed() shows
    stepWeight,         \* each StepCard's getTimeElapsedPercentage()
    \* lib/aiDescriber.ts, ActionsList.tsx: ActionItem
    descAction,         \* the action handed to the description functions
    descTarget,         \* the clicked DOM element descAction was recorded from: <<>> or <<el>>
    tableDesc,          \* actionDesc of the table row, Null before it is computed
    fallbackDesc,       \* what getFallbackDescription (client) returned
    serverFallbackDesc, \* what getFallbackDescription (server) returned
    settled,            \* how the last generateActionDescription promise settled
    apiKeySet,          \* aiDescriber: let apiKeySet = false
    aiEnabled,          \* ActionItem prop
    itemAction,         \* ActionItem prop: the action of the list's last item
    itemDescription,    \* ActionItem: useState<string | null>(null)
    itemLoading,        \* ActionItem: useState(false)
    effectPending,      \* the useEffect of the last render has not run yet
    requests,           \* describe requests in flight: the actions they were sent for
    replacements        \* how many times coalescing replaced itemAction

recVars == <<isRecording, actions, title, description, saveDialogOpen,
             selectedRecording, showCaptureModal, capturedHtml, now, sink, lastOp,
             triggeredRecording>>

storeVars == <<sessions, response, memSessions, memResponse>>

pdfVars == <<pdfPc, pdfActions, pdfDoc, pdfI, lastPosition, outcome, bodyContainers,
            pdfRows>>

tlVars == <<recording, totalDurationSeconds, actionTimings, stepElapsed, stepWeight>>

descVars == <<descAction, descTarget, tableDesc, fallbackDesc, serverFallbackDesc,
             settled, apiKeySet, aiEnabled, itemAction, itemDescription, itemLoading,
             effectPending, requests, replacements>>

vars == <<recVars, storeVars, pdfVars, tlVars, descVars>>

Null == "null"

----------------------------------------------------------------------------
(* Bounds of the model *)

MaxActions == 3
MaxClock == 1
MaxSessions == 1

----------------------------------------------------------------------------
(* shared/schema.ts: RecordedAction *)

Click(ts, xy, el) ==
    [type |-> "click", timestamp |-> ts, coordinates |-> xy, element |-> el]

TypeText(ts, s) == [type |-> "type", timestamp |-> ts, text |-> s]

Capture(ts, html) == [type |-> "capture", timestamp |-> ts, content |-> html]

\* The event targets and input values of the interaction area.
Targets ==
    { [id |-> "submit", text |-> "Submit", tagName |-> "BUTTON"],
      [id |-> "", text |-> "", tagName |-> "DIV"] }

Points == { [x |-> 10, y |-> 20] }

InputValues == {"a", "ab", "abc", "x"}

ScreenshotAreaHtml == "<div id=\"screenshotArea\">\\</div>"

----------------------------------------------------------------------------
(* Home.tsx: addAction *)

AddActionAppendOnly(prev, action) == Append(prev, action)

AddActionCoalesceSameType(prev, action) ==
    IF Len(prev) > 0 /\ prev[Len(prev)].type = action.type
    THEN Append(SubSeq(prev, 1, Len(prev) - 1), action)
    ELSE Append(prev, action)

AddActionCoalesceOnFirst(prev, action) ==
    IF /\ action.type = "type"
       /\ Len(prev) > 0
       /\ prev[1].type = "type"
    THEN Append(SubSeq(prev, 1, Len(prev) - 1), action)
    ELSE Append(prev, action)

AddAction(prev, action) ==
    IF /\ action.type = "type"
       /\ Len(prev) > 0
       /\ prev[Len(prev)].type = "type"
    THEN Append(SubSeq(prev, 1, Len(prev) - 1), action)
    ELSE Append(prev, action)


----------------------------------------------------------------------------
(* JSON.stringify and JSON.parse, over a token stream.  stringify writes   *)
(* the own properties of an object that are present, in insertion order;   *)
(* parse rebuilds objects and arrays from the stream.                      *)

JsonTok(t) == [t |-> t]

JsonKey(k) == [t |-> "key", v |-> k]

JsonString(s) == <<[t |-> "str", v |-> s]>>

JsonNumber(n) == <<[t |-> "num", v |-> n]>>

JsonObject(members) == <<JsonTok("{")>> \o members \o <<JsonTok("}")>>

JsonStringMember(obj, k) ==
    IF k \in DOMAIN obj THEN <<JsonKey(k)>> \o JsonString(obj[k]) ELSE <<>>

StringifyCoordinates(c) ==
    JsonObject(<<JsonKey("x")>> \o JsonNumber(c.x) \o <<JsonKey("y")>> \o JsonNumber(c.y))

StringifyElement(el) ==
    JsonObject(JsonStringMember(el, "id") \o JsonStringMember(el, "text")
               \o JsonStringMember(el, "tagName"))

StringifyAction(a) ==
    JsonObject(
        JsonStringMember(a, "type")
        \o JsonStringMember(a, "timestamp")
        \o (IF "coordinates" \in DOMAIN a
            THEN <<JsonKey("coordinates")>> \o StringifyCoordinates(a.coordinates)
            ELSE <<>>)
        \o (IF "element" \in DOMAIN a
            THEN <<JsonKey("element")>> \o StringifyElement(a.element)
            ELSE <<>>)
        \o JsonStringMember(a, "text")
        \o JsonStringMember(a, "content")
        \o JsonStringMember(a, "description"))

RECURSIVE StringifyActions(_)
StringifyActions(seq) ==
    IF seq = <<>> THEN <<>>
    ELSE StringifyAction(Head(seq)) \o StringifyActions(Tail(seq))

\* JSON.stringify(exportData, null, 2)
JsonStringify(data) ==
    JsonObject(
        JsonStringMember(data, "timestamp")
        \o JsonStringMember(data, "title")
        \o JsonStringMember(data, "description")
        \o <<JsonKey("actions"), JsonTok("[")>>
        \o StringifyActions(data.actions)
        \o <<JsonTok("]")>>)

MakeObject(pairs) ==
    [k \in {pairs[i][1] : i \in DOMAIN pairs} |->
        pairs[CHOOSE i \in DOMAIN pairs :
                 /\ pairs[i][1] = k
                 /\ \A j \in DOMAIN pairs : pairs[j][1] = k => j <= i][2]]

RECURSIVE ParseValue(_, _), ParseMembers(_, _, _), ParseItems(_, _, _)
ParseValue(toks, i) ==
    CASE toks[i].t = "{" -> ParseMembers(toks, i + 1, <<>>)
      [] toks[i].t = "[" -> ParseItems(toks, i + 1, <<>>)
      [] OTHER -> [val |-> toks[i].v, next |-> i + 1]

ParseMembers(toks, i, pairs) ==
    IF toks[i].t = "}"
    THEN [val |-> MakeObject(pairs), next |-> i + 1]
    ELSE LET r == ParseValue(toks, i + 1)
         IN  ParseMembers(toks, r.next, Append(pairs, <<toks[i].v, r.val>>))

ParseItems(toks, i, items) ==
    IF toks[i].t = "]"
    THEN [val |-> items, next |-> i + 1]
    ELSE LET r == ParseValue(toks, i)
         IN  ParseItems(toks, r.next, Append(items, r.val))

JsonParse(toks) == ParseValue(toks, 1).val

----------------------------------------------------------------------------
(* Home.tsx: the recorder page *)

ToLocaleString(ts) == "T" \o ToString(ts)

DefaultTitle(ts) == "Recording " \o ToLocaleString(ts)

Titles == {"", "Demo"}

Descriptions == {"", "How to submit"}

\* Sessions offered by the recording list (fetched from /api/recordings).
SampleRecordings ==
    { [id |-> "r1", title |-> "Login", actionsCount |-> 2,
       actions |-> << [type |-> "click", timestamp |-> 5,
                       coordinates |-> [x |-> 1, y |-> 2],
                       description |-> "Press the button"],
                      [type |-> "capture", timestamp |-> 3,
                       content |-> ScreenshotAreaHtml] >>],
      [id |-> "r2", title |-> "Empty", actionsCount |-> 0, actions |-> <<>>] }

ExportDataDropLast(acts, t, d, ts) ==
    [timestamp |-> ts,
     title |-> IF t # "" THEN t ELSE DefaultTitle(ts),
     description |-> d,
     actions |-> SubSeq(acts, 1, Len(acts) - 1)]

ExportData(acts, t, d, ts) ==
    [timestamp |-> ts,
     title |-> IF t # "" THEN t ELSE DefaultTitle(ts),
     description |-> IF d # "" THEN d ELSE "",
     actions |-> acts]

NoOp(name) == [op |-> name]

StartRecording ==
    /\ ~isRecording
    /\ isRecording' = TRUE
    /\ lastOp' = NoOp("startRecording")
    /\ UNCHANGED <<actions, title, description, saveDialogOpen, selectedRecording,
                   showCaptureModal, capturedHtml, now, sink>>
    /\ UNCHANGED triggeredRecording
    /\ UNCHANGED <<storeVars, pdfVars, tlVars, descVars>>

StopRecordingClearing ==
    /\ isRecording
    /\ isRecording' = FALSE
    /\ actions' = <<>>
    /\ lastOp' = NoOp("stopRecording")
    /\ UNCHANGED <<title, description, saveDialogOpen, selectedRecording,
                   showCaptureModal, capturedHtml, now, sink>>
    /\ UNCHANGED triggeredRecording
    /\ UNCHANGED <<storeVars, pdfVars, tlVars, descVars>>

StopRecording ==
    /\ isRecording
    /\ isRecording' = FALSE
    /\ lastOp' = NoOp("stopRecording")
    /\ UNCHANGED <<actions, title, description, saveDialogOpen, selectedRecording,
                   showCaptureModal, capturedHtml, now, sink>>
    /\ UNCHANGED triggeredRecording
    /\ UNCHANGED <<storeVars, pdfVars, tlVars, descVars>>

\* onAddAction(actionData): setActions(prev => ...)
DoAddAction(action) ==
    /\ Len(AddAction(actions, action)) <= MaxActions
    /\ actions' = AddAction(actions, action)
    /\ lastOp' = [op |-> "addAction", arg |-> action, prev |-> actions]

\* ActionRecorder: the document click listener, attached while recording
TrackMouseClicks ==
    /\ isRecording
    /\ \E xy \in Points, target \in Targets :
          DoAddAction(Click(now, xy, target))
    /\ UNCHANGED <<isRecording, title, description, saveDialogOpen, selectedRecording,
                   showCaptureModal, capturedHtml, now, sink>>
    /\ UNCHANGED triggeredRecording
    /\ UNCHANGED <<storeVars, pdfVars, tlVars, descVars>>

\* InteractionArea: handleKeyUp
HandleKeyUp ==
    /\ isRecording
    /\ \E value \in InputValues : DoAddAction(TypeText(now, value))
    /\ UNCHANGED <<isRecording, title, description, saveDialogOpen, selectedRecording,
                   showCaptureModal, capturedHtml, now, sink>>
    /\ UNCHANGED triggeredRecording
    /\ UNCHANGED <<storeVars, pdfVars, tlVars, descVars>>

\* ActionRecorder: handleCapture; the screenshot area may be missing
HandleCapture ==
    /\ \E present \in BOOLEAN :
          IF present
          THEN /\ capturedHtml' = ScreenshotAreaHtml
               /\ showCaptureModal' = TRUE
               /\ triggeredRecording' = isRecording
          ELSE UNCHANGED <<capturedHtml, showCaptureModal, triggeredRecording>>
    /\ lastOp' = NoOp("handleCapture")
    /\ UNCHANGED <<isRecording, actions, title, description, saveDialogOpen,
                   selectedRecording, now, sink>>
    /\ UNCHANGED <<storeVars, pdfVars, tlVars, descVars>>

\* ActionRecorder: handleSaveCapture, the capture modal's save button
HandleSaveCapture ==
    /\ showCaptureModal
    /\ IF ~isRecording
       THEN /\ lastOp' = NoOp("handleSaveCapture")
            /\ UNCHANGED actions
       ELSE DoAddAction(Capture(now, capturedHtml))
    /\ showCaptureModal' = FALSE
    /\ triggeredRecording' = FALSE
    /\ UNCHANGED <<isRecording, title, description, saveDialogOpen, selectedRecording,
                   capturedHtml, now, sink>>
    /\ UNCHANGED <<storeVars, pdfVars, tlVars, descVars>>

CloseCaptureModal ==
    /\ showCaptureModal
    /\ showCaptureModal' = FALSE
    /\ triggeredRecording' = FALSE
    /\ lastOp' = NoOp("closeCaptureModal")
    /\ UNCHANGED <<isRecording, actions, title, description, saveDialogOpen,
                   selectedRecording, capturedHtml, now, sink>>
    /\ UNCHANGED <<storeVars, pdfVars, tlVars, descVars>>

\* RecordingList: onSelectRecording, and the effect on selectedRecording
SelectRecording ==
    /\ \E r \in SampleRecordings :
          /\ selectedRecording' = r.id
          /\ actions' = r.actions
    /\ lastOp' = NoOp("selectRecording")
    /\ UNCHANGED <<isRecording, title, description, saveDialogOpen,
                   showCaptureModal, capturedHtml, now, sink>>
    /\ UNCHANGED triggeredRecording
    /\ UNCHANGED <<storeVars, pdfVars, tlVars, descVars>>

\* exportActions, and the effect that resets the form when the dialog opens
ExportActions ==
    /\ ~saveDialogOpen
    /\ IF Len(actions) = 0
       THEN UNCHANGED <<saveDialogOpen, title, description>>
       ELSE /\ saveDialogOpen' = TRUE
            /\ title' = DefaultTitle(now)
            /\ description' = ""
    /\ lastOp' = NoOp("exportActions")
    /\ UNCHANGED <<isRecording, actions, selectedRecording, showCaptureModal,
                   capturedHtml, now, sink>>
    /\ UNCHANGED triggeredRecording
    /\ UNCHANGED <<storeVars, pdfVars, tlVars, descVars>>

\* the save dialog's title and description inputs, and its cancel button
EditSaveDialog ==
    /\ saveDialogOpen
    /\ \E t \in Titles, d \in Descriptions, open \in BOOLEAN :
          /\ title' = t
          /\ description' = d
          /\ saveDialogOpen' = open
    /\ lastOp' = NoOp("editSaveDialog")
    /\ UNCHANGED <<isRecording, actions, selectedRecording, showCaptureModal,
                   capturedHtml, now, sink>>
    /\ UNCHANGED triggeredRecording
    /\ UNCHANGED <<storeVars, pdfVars, tlVars, descVars>>

\* exportToJson, the dialog's Export JSON button
ExportToJson ==
    /\ saveDialogOpen
    /\ IF Len(actions) = 0
       THEN UNCHANGED sink
       ELSE sink' = [content |-> JsonStringify(ExportData(actions, title, description, now)),
                     ext |-> "json", mime |-> "application/json"]
    /\ lastOp' = NoOp("exportToJson")
    /\ UNCHANGED <<isRecording, actions, title, description, saveDialogOpen,
                   selectedRecording, showCaptureModal, capturedHtml, now>>
    /\ UNCHANGED triggeredRecording
    /\ UNCHANGED <<storeVars, pdfVars, tlVars, descVars>>

Tick ==
    /\ now < MaxClock
    /\ now' = now + 1
    /\ lastOp' = NoOp("tick")
    /\ UNCHANGED <<isRecording, actions, title, description, saveDialogOpen,
                   selectedRecording, showCaptureModal, capturedHtml, sink>>
    /\ UNCHANGED triggeredRecording
    /\ UNCHANGED <<storeVars, pdfVars, tlVars, descVars>>

InitRecorder ==
    /\ isRecording = FALSE
    /\ actions = <<>>
    /\ title = ""
    /\ description = ""
    /\ saveDialogOpen = FALSE
    /\ selectedRecording = Null
    /\ showCaptureModal = FALSE
    /\ capturedHtml = ""
    /\ now = 0
    /\ sink = [content |-> <<>>, ext |-> "", mime |-> ""]
    /\ lastOp = NoOp("init")
    /\ triggeredRecording = FALSE

NextRecorder ==
    \/ StartRecording
    \/ StopRecording
    \/ TrackMouseClicks
    \/ HandleKeyUp
    \/ HandleCapture
    \/ HandleSaveCapture
    \/ CloseCaptureModal
    \/ SelectRecording
    \/ Tick

\* the save dialog and its exports
NextExport ==
    \/ ExportActions
    \/ EditSaveDialog
    \/ ExportToJson


----------------------------------------------------------------------------
(* server/storage.ts: DatabaseStorage, and the routes of server/routes.ts  *)
(* that call it.  createdAt and updatedAt are left out of the rows.        *)

SessionIds == 1 .. MaxSessions

ShareUrlOf(id) == "/recording/" \o ToString(id)

\* Action arrays a request body can carry (recordedActionSchema)
ClickNoCoordinates == [type |-> "click", timestamp |-> 1]

ClickNoY == [type |-> "click", timestamp |-> 1, coordinates |-> [x |-> 1]]

UnknownType == [type |-> "hover", timestamp |-> 1]

BodyActions ==
    { << [type |-> "capture", timestamp |-> 1, content |-> "<p>"] >>,
      << [type |-> "click", timestamp |-> 1, coordinates |-> [x |-> 1, y |-> 2]],
         [type |-> "type", timestamp |-> 2, text |-> "a"] >>,
      << ClickNoCoordinates >>,
      << ClickNoY >>,
      << UnknownType >> }

\* recordedActionSchema.parse succeeds: the type is one of the enum, the
\* timestamp is there, and coordinates, when there, have both x and y
SchemaAccepts(action) ==
    /\ action.type \in {"click", "type", "capture"}
    /\ "timestamp" \in DOMAIN action
    /\ "coordinates" \in DOMAIN action => {"x", "y"} \subseteq DOMAIN action.coordinates

\* z.array(recordedActionSchema), optional in the update schema
BodyAccepted(body) ==
    "actions" \in DOMAIN body =>
        \A i \in DOMAIN body.actions : SchemaAccepts(body.actions[i])

BodyCounts == {7}

Restrict(f, S) == [k \in S |-> f[k]]

\* insertRecordingSessionSchema: title, actions and actionsCount are required
InsertBodies ==
    { Restrict(full, {"title", "actions", "actionsCount"} \cup opt) :
        full \in [title : {"A"}, actions : BodyActions, actionsCount : BodyCounts,
                  isShared : {TRUE}],
        opt \in SUBSET {"isShared"} }

\* updateRecordingSessionSchema: every column but id and createdAt, all optional
UpdateBodies ==
    { Restrict(full, S) :
        full \in [actions : BodyActions, actionsCount : BodyCounts, isShared : {TRUE}],
        S \in SUBSET {"actions", "actionsCount", "isShared"} }

SomeCapture(acts) == \E i \in DOMAIN acts : acts[i].type = "capture"

\* the column defaults of recordingSessions, overridden by the values given
InsertRow(id, values) ==
    LET defaults == [id |-> id, description |-> Null, hasCaptures |-> FALSE,
                     isShared |-> FALSE, shareUrl |-> Null]
    IN  [k \in DOMAIN defaults \cup DOMAIN values |->
            IF k \in DOMAIN values THEN values[k] ELSE defaults[k]]

\* db.update(...).set(data): the columns named in data are overwritten
SetColumns(row, data) ==
    [k \in DOMAIN row |-> IF k \in DOMAIN data THEN data[k] ELSE row[k]]

CreateValues(session) ==
    [k \in DOMAIN session \cup {"hasCaptures", "actionsCount"} |->
        CASE k = "hasCaptures" -> SomeCapture(session.actions)
          [] k = "actionsCount" -> Len(session.actions)
          [] OTHER -> session[k]]

UpdateData(data) ==
    IF "actions" \in DOMAIN data
    THEN [k \in DOMAIN data \cup {"hasCaptures", "actionsCount"} |->
            CASE k = "hasCaptures" -> SomeCapture(data.actions)
              [] k = "actionsCount" -> Len(data.actions)
              [] OTHER -> data[k]]
    ELSE data

GetSharedIgnoringFlag(id) ==
    IF id \in DOMAIN sessions THEN <<sessions[id]>> ELSE <<>>

\* select ... where id = ${id} AND is_shared = TRUE: the rows selected, of
\* which the caller takes the first (<<>> stands for undefined)
GetSharedRecordingSession(id) ==
    IF id \in DOMAIN sessions /\ sessions[id].isShared = TRUE
    THEN <<sessions[id]>>
    ELSE <<>>

Reply(route, id, status, body) ==
    [route |-> route, id |-> id, status |-> status, body |-> body]

NotFound == "Recording session not found"

SharedNotFound == "Shared recording not found or not public"

InvalidRequest == "Invalid request format"

\* MemStorage.createRecordingSession
MemCreateRow(id, session) ==
    [id |-> id,
     title |-> session.title,
     description |-> IF "description" \in DOMAIN session /\ session.description # ""
                     THEN session.description ELSE Null,
     actions |-> session.actions,
     actionsCount |-> Len(session.actions),
     hasCaptures |-> SomeCapture(session.actions),
     isShared |-> FALSE,
     shareUrl |-> Null]

\* MemStorage.updateRecordingSession: { ...session, ...data }
MemSpread(row, data) ==
    [k \in DOMAIN row \cup DOMAIN data |-> IF k \in DOMAIN data THEN data[k] ELSE row[k]]

\* MemStorage.getSharedRecordingSession
MemGetSharedRecordingSession(id) ==
    IF id \in DOMAIN memSessions /\ memSessions[id].isShared = TRUE
    THEN <<memSessions[id]>>
    ELSE <<>>

Put(table, id, row) ==
    [i \in DOMAIN table \cup {id} |-> IF i = id THEN row ELSE table[i]]

Remove(table, id) == [i \in DOMAIN table \ {id} |-> table[i]]

\* POST /api/recordings
CreateRecordingSession ==
    /\ \E body \in InsertBodies, id \in SessionIds \ DOMAIN sessions :
          IF ~BodyAccepted(body)
          THEN /\ response' = Reply("create", 0, 400, InvalidRequest)
               /\ memResponse' = Reply("create", 0, 400, InvalidRequest)
               /\ UNCHANGED <<sessions, memSessions>>
          ELSE /\ sessions' = Put(sessions, id, InsertRow(id, CreateValues(body)))
               /\ response' = Reply("create", id, 201, InsertRow(id, CreateValues(body)))
               /\ memSessions' = Put(memSessions, id, MemCreateRow(id, body))
               /\ memResponse' = Reply("create", id, 201, MemCreateRow(id, body))
    /\ UNCHANGED <<recVars, pdfVars, tlVars, descVars>>

\* PUT /api/recordings/:id
UpdateRecordingSession ==
    /\ \E id \in SessionIds, body \in UpdateBodies :
          IF ~BodyAccepted(body)
          THEN /\ response' = Reply("update", id, 400, InvalidRequest)
               /\ memResponse' = Reply("update", id, 400, InvalidRequest)
               /\ UNCHANGED <<sessions, memSessions>>
          ELSE /\ IF id \in DOMAIN sessions
                  THEN LET row == SetColumns(sessions[id], UpdateData(body))
                       IN  /\ sessions' = [sessions EXCEPT ![id] = row]
                           /\ response' = Reply("update", id, 200, row)
                  ELSE /\ response' = Reply("update", id, 404, NotFound)
                       /\ UNCHANGED sessions
               /\ IF id \in DOMAIN memSessions
                  THEN LET row == MemSpread(memSessions[id], body)
                       IN  /\ memSessions' = [memSessions EXCEPT ![id] = row]
                           /\ memResponse' = Reply("update", id, 200, row)
                  ELSE /\ memResponse' = Reply("update", id, 404, NotFound)
                       /\ UNCHANGED memSessions
    /\ UNCHANGED <<recVars, pdfVars, tlVars, descVars>>

\* POST /api/recordings/:id/share
SetRecordingSessionShared ==
    /\ \E id \in SessionIds, isShared \in BOOLEAN :
          LET data == [isShared |-> isShared,
                       shareUrl |-> IF isShared THEN ShareUrlOf(id) ELSE Null]
          IN  /\ IF id \in DOMAIN sessions
                 THEN /\ sessions' = [sessions EXCEPT ![id] = SetColumns(sessions[id], data)]
                      /\ response' = Reply("share", id, 200, SetColumns(sessions[id], data))
                 ELSE /\ response' = Reply("share", id, 404, NotFound)
                      /\ UNCHANGED sessions
              /\ IF id \in DOMAIN memSessions
                 THEN /\ memSessions' =
                            [memSessions EXCEPT ![id] = MemSpread(memSessions[id], data)]
                      /\ memResponse' =
                            Reply("share", id, 200, MemSpread(memSessions[id], data))
                 ELSE /\ memResponse' = Reply("share", id, 404, NotFound)
                      /\ UNCHANGED memSessions
    /\ UNCHANGED <<recVars, pdfVars, tlVars, descVars>>

\* DELETE /api/recordings/:id
DeleteRecordingSession ==
    /\ \E id \in SessionIds :
          /\ IF id \in DOMAIN sessions
             THEN /\ sessions' = Remove(sessions, id)
                  /\ response' = Reply("delete", id, 204, Null)
             ELSE /\ response' = Reply("delete", id, 404, NotFound)
                  /\ UNCHANGED sessions
          /\ IF id \in DOMAIN memSessions
             THEN /\ memSessions' = Remove(memSessions, id)
                  /\ memResponse' = Reply("delete", id, 204, Null)
             ELSE /\ memResponse' = Reply("delete", id, 404, NotFound)
                  /\ UNCHANGED memSessions
    /\ UNCHANGED <<recVars, pdfVars, tlVars, descVars>>

\* GET /api/recordings/:id
GetRecordingSessionById ==
    /\ \E id \in SessionIds :
          /\ response' = IF id \in DOMAIN sessions
                         THEN Reply("get", id, 200, sessions[id])
                         ELSE Reply("get", id, 404, NotFound)
          /\ memResponse' = IF id \in DOMAIN memSessions
                            THEN Reply("get", id, 200, memSessions[id])
                            ELSE Reply("get", id, 404, NotFound)
    /\ UNCHANGED <<sessions, memSessions, recVars, pdfVars, tlVars, descVars>>

\* GET /api/shared-recordings/:id
GetSharedRecording ==
    /\ \E id \in SessionIds :
          /\ LET session == GetSharedRecordingSession(id)
             IN  response' =
                    IF session = <<>>
                    THEN Reply("shared", id, 404, SharedNotFound)
                    ELSE Reply("shared", id, 200, session[1])
          /\ LET session == MemGetSharedRecordingSession(id)
             IN  memResponse' =
                    IF session = <<>>
                    THEN Reply("shared", id, 404, SharedNotFound)
                    ELSE Reply("shared", id, 200, session[1])
    /\ UNCHANGED <<sessions, memSessions, recVars, pdfVars, tlVars, descVars>>

InitStore ==
    /\ sessions = <<>>
    /\ response = Reply("none", 0, 0, Null)
    /\ memSessions = <<>>
    /\ memResponse = Reply("none", 0, 0, Null)

NextStore ==
    \/ CreateRecordingSession
    \/ UpdateRecordingSession
    \/ SetRecordingSessionShared
    \/ DeleteRecordingSession
    \/ GetSharedRecording



----------------------------------------------------------------------------
(* Home.tsx / SharedRecording.tsx: exportToPdf.  A page of the document is *)
(* the sequence of the items drawn on it; an item records what was drawn,  *)
(* for which action (its 1-based position in the actions array, 0 for the  *)
(* document's own items) and at which y.                                   *)

PageHeight == 297

MaxPdfActions == 3

Item(kind, step, y) == [kind |-> kind, step |-> step, y |-> y]

\* The actions arrays an export runs on: clicks, captures and empty captures.
\* Each action is a distinct object; its timestamp, its position, tells
\* it from the others as the reference does in the code.
PdfKinds == {"click", "capture", "emptyCapture"}

PdfAction(kind, i) ==
    CASE kind = "click" ->
            [type |-> "click", timestamp |-> i, coordinates |-> [x |-> 10, y |-> 20]]
      [] kind = "capture" -> [type |-> "capture", timestamp |-> i, content |-> "<p>"]
      [] OTHER -> [type |-> "capture", timestamp |-> i, content |-> ""]

PdfSequences ==
    UNION { { [i \in 1 .. n |-> PdfAction(kinds[i], i)] : kinds \in [1 .. n -> PdfKinds] } :
            n \in 0 .. MaxPdfActions }

\* lastAutoTable.finalY, as autoTable lays the rows out
FinalYs == {80, 250}

\* actions.filter(action => action.type === 'capture' && action.content),
\* as the positions of the captures kept
RECURSIVE CapturePositions(_, _)
CapturePositions(acts, i) ==
    IF i > Len(acts) THEN <<>>
    ELSE IF acts[i].type = "capture" /\ acts[i].content # ""
         THEN <<i>> \o CapturePositions(acts, i + 1)
         ELSE CapturePositions(acts, i + 1)

CaptureActions(acts) == CapturePositions(acts, 1)

\* actions.findIndex(a => a === capture) + 1
CaptureIndex(acts, capture) ==
    IF \E j \in DOMAIN acts : acts[j] = capture
    THEN CHOOSE j \in DOMAIN acts :
            /\ acts[j] = capture
            /\ \A k \in DOMAIN acts : acts[k] = capture => j <= k
    ELSE 0

\* the actions array as the page's state holds it now
LiveActions == actions

\* the actions array of the render whose exportToPdf is running: the
\* function closed over it when it was created
ClosureActions == pdfActions

TruncatedEllipsisFrom20(text) ==
    (IF Len(text) > 20 THEN SubSeq(text, 1, 20) ELSE text)
    \o (IF Len(text) >= 20 THEN "..." ELSE "")

\* text.substring(0, 20) followed by '...' when text.length > 20
Truncated(text) ==
    (IF Len(text) > 20 THEN SubSeq(text, 1, 20) ELSE text)
    \o (IF Len(text) > 20 THEN "..." ELSE "")

\* action.element?.<field>, where undefined and '' are both falsy
ElementField(action, field) ==
    IF "element" \in DOMAIN action /\ field \in DOMAIN action.element
    THEN action.element[field]
    ELSE ""

\* elementInfo of a click: #id, else the quoted cut text, else the tag name
ElementInfo(action) ==
    IF ElementField(action, "id") # ""
    THEN "#" \o ElementField(action, "id")
    ELSE IF ElementField(action, "text") # ""
    THEN "\"" \o Truncated(ElementField(action, "text")) \o "\""
    ELSE IF ElementField(action, "tagName") # ""
    THEN ElementField(action, "tagName")
    ELSE "element"

\* ${action.coordinates?.x}: the number, or "undefined" without coordinates
CoordinateText(action, axis) ==
    IF "coordinates" \in DOMAIN action
    THEN ToString(action.coordinates[axis])
    ELSE "undefined"

\* the Description column of the actions table
ActionDesc(action) ==
    CASE action.type = "click" ->
            "Click on " \o ElementInfo(action) \o " at ("
            \o CoordinateText(action, "x") \o ", "
            \o CoordinateText(action, "y") \o ")"
      [] action.type = "type" ->
            "Type \"" \o (IF "text" \in DOMAIN action THEN action.text ELSE "undefined")
            \o "\" in input field"
      [] action.type = "capture" ->
            "Capture page state ("
            \o ToString(IF "content" \in DOMAIN action THEN Len(action.content) ELSE 0)
            \o " chars)"
      [] OTHER -> action.type \o " action"

\* tableData: one row [index + 1, type, description, time] per action
TableData(acts) ==
    [i \in DOMAIN acts |->
        <<i, acts[i].type, ActionDesc(acts[i]), ToLocaleString(acts[i].timestamp)>>]

\* doc.text / doc.addImage / doc.autoTable on the current (last) page
Draw(doc, item) == [doc EXCEPT ![Len(doc)] = Append(@, item)]

AddPage(doc) == Append(doc, <<>>)

PdfFrame == UNCHANGED <<recVars, storeVars, tlVars, descVars>>

\* exportToPdf up to its first await
ExportToPdf ==
    /\ pdfPc = "idle"
    /\ IF Len(actions) = 0
       THEN UNCHANGED <<pdfPc, pdfActions>>
       ELSE /\ pdfPc' = "import1"
            /\ pdfActions' = actions
    /\ UNCHANGED <<pdfDoc, pdfI, lastPosition, outcome, bodyContainers, pdfRows>>
    /\ PdfFrame

\* await import('jspdf-autotable') settles
ImportAutoTable ==
    /\ pdfPc = "import1"
    /\ \E ok \in BOOLEAN : pdfPc' = IF ok THEN "import2" ELSE "failed"
    /\ UNCHANGED <<pdfActions, pdfDoc, pdfI, lastPosition, outcome, bodyContainers,
                   pdfRows>>
    /\ PdfFrame

\* the first iteration's container is appended and html2canvas awaited, or,
\* with no capture to render, the document is saved
EnterCaptureLoop(i) ==
    IF i < Len(CaptureActions(pdfActions))
    THEN /\ pdfPc' = "render"
         /\ bodyContainers' = bodyContainers \cup {i}
    ELSE /\ pdfPc' = "done"
         /\ UNCHANGED bodyContainers

\* await import('html2canvas') settles; title, table and captures header
ImportHtml2Canvas ==
    /\ pdfPc = "import2"
    /\ \E ok \in BOOLEAN, finalY \in FinalYs :
          IF ~ok
          THEN /\ pdfPc' = "failed"
               /\ UNCHANGED <<pdfDoc, pdfI, lastPosition, bodyContainers, pdfRows>>
          ELSE LET startY == IF description # "" THEN 60 ELSE 40
                   tabled == << <<Item("title", 0, 22), Item("table", 0, startY)>> >>
                   doc == IF Len(CaptureActions(pdfActions)) > 0
                          THEN Draw(tabled, Item("header", 0, finalY + 15))
                          ELSE tabled
               IN  /\ pdfDoc' = doc
                   /\ pdfRows' = TableData(ClosureActions)
                   /\ lastPosition' = finalY
                   /\ pdfI' = 0
                   /\ EnterCaptureLoop(0)
    /\ UNCHANGED <<pdfActions, outcome>>
    /\ PdfFrame

ImageBeforeCaption(doc, i, step, imageOk) ==
    LET paged == IF i > 0 \/ lastPosition > PageHeight - 100
                 THEN AddPage(doc) ELSE doc
    IN  IF imageOk
        THEN Draw(Draw(Draw(paged, Item("image", step, 40)),
                       Item("caption", step, 20)),
                  Item("timestamp", step, 30))
        ELSE Draw(paged, Item("error", step, 40))

\* the loop body from "Add a new page for each capture" to addImage
CaptionAndImage(doc, i, step, imageOk) ==
    LET paged == IF i > 0 \/ lastPosition > PageHeight - 100
                 THEN AddPage(doc) ELSE doc
        captioned == Draw(Draw(paged, Item("caption", step, 20)),
                          Item("timestamp", step, 30))
    IN  IF imageOk
        THEN Draw(captioned, Item("image", step, 40))
        ELSE Draw(captioned, Item("error", step, 40))

\* await html2canvas(container) settles for capture i, and the rest of the
\* iteration with it: the catch block when it, or addImage, throws
RenderCapture ==
    /\ pdfPc = "render"
    /\ \E result \in {"ok", "render", "image"} :
          LET step == CaptureIndex(pdfActions, pdfActions[CaptureActions(pdfActions)[pdfI + 1]])
              doc == IF result = "render"
                     THEN Draw(pdfDoc, Item("error", step, 40))
                     ELSE CaptionAndImage(pdfDoc, pdfI, step, result = "ok")
              attached == IF result = "render"
                          THEN bodyContainers
                          ELSE bodyContainers \ {pdfI}
          IN  /\ pdfDoc' = doc
              /\ outcome' = Append(outcome, result)
              /\ pdfI' = pdfI + 1
              /\ IF pdfI + 1 < Len(CaptureActions(pdfActions))
                 THEN /\ pdfPc' = "render"
                      /\ bodyContainers' = attached \cup {pdfI + 1}
                 ELSE /\ pdfPc' = "done"
                      /\ bodyContainers' = attached
    /\ UNCHANGED <<pdfActions, lastPosition, pdfRows>>
    /\ PdfFrame

InitPdf ==
    /\ pdfPc = "idle"
    /\ pdfActions = <<>>
    /\ pdfDoc = <<>>
    /\ pdfI = 0
    /\ lastPosition = 0
    /\ outcome = <<>>
    /\ bodyContainers = {}
    /\ pdfRows = <<>>

NextPdf ==
    \/ ExportToPdf
    \/ ImportAutoTable
    \/ ImportHtml2Canvas
    \/ RenderCapture


----------------------------------------------------------------------------
(* The shared-recording page: totalDurationSeconds, actionTimings and      *)
(* formatDuration; StepCard.tsx / ActionsList.tsx: getTimeElapsed.         *)

MaxTimelineLen == 3

DefaultDuration == 30

\* The instants (ms) the actions of a fetched recording carry
TimelineStamps == {0, 999, 1000, 1500, 2150, 20000, 40000, 59999, 65000, 90999}

TimelineRecordings ==
    UNION { { [i \in 1 .. n |-> [type |-> "click", timestamp |-> ts[i]]] :
                ts \in [1 .. n -> TimelineStamps] } : n \in 0 .. MaxTimelineLen }

\* new Date(timestamp).getTime()
GetTime(timestamp) == timestamp

\* Math.round(x / 1000): the nearest integer, a half going up
MathRoundDiv1000(x) == (x + 500) \div 1000

MathFloorDiv1000(x) == x \div 1000

\* The k for which (100 k + 50) / 1000, as a double, lies below the decimal
\* it stands for, so that toFixed(1) takes the lower tenth
ToFixedTieDown ==
    { 11, 14, 16, 19, 20, 21, 25, 26, 30, 31, 35, 36, 40, 43, 45, 48,
      50, 53, 55, 58, 60, 63, 65, 68, 70, 73, 75, 78, 83, 84, 88, 89,
      93, 94, 98, 99, 103, 104, 108, 109, 113, 114, 118, 119, 123, 124, 128, 129,
      133, 134, 138, 139, 143, 144, 148, 149, 153, 154, 158, 159, 161, 164, 166, 169,
      171, 174, 176, 179, 181, 184, 186, 189, 191, 194, 196, 199, 201, 204, 206, 209,
      211, 214, 216, 219, 221, 224, 226, 229, 231, 234, 236, 239, 241, 244, 246, 249,
      251, 254, 256, 259, 261, 264, 266, 269, 271, 274, 276, 279, 281, 284, 286, 289,
      291, 294, 296, 299, 301, 304, 306, 309, 311, 314, 316, 319, 320, 321, 325, 326,
      330, 331, 335, 336, 340, 341, 345, 346, 350, 351, 355, 356, 360, 361, 365, 366,
      370, 371, 375, 376, 380, 381, 385, 386, 390, 391, 395, 396, 400, 401, 405, 406,
      410, 411, 415, 416, 420, 421, 425, 426, 430, 431, 435, 436, 440, 441, 445, 446,
      450, 451, 455, 456, 460, 461, 465, 466, 470, 471, 475, 476, 480, 481, 485, 486,
      490, 491, 495, 496, 500, 501, 505, 506, 510, 511, 515, 516, 520, 521, 525, 526,
      530, 531, 535, 536, 540, 541, 545, 546, 550, 551, 555, 556, 560, 561, 565, 566,
      570, 571, 575, 576, 580, 581, 585, 586, 590, 591, 595, 596 }

\* (ms / 1000).toFixed(1), for ms >= 0: the tenth nearest to the double
ToFixed1(ms) ==
    LET k == ms \div 100
        r == ms % 100
        tenths == IF r > 50 \/ (r = 50 /\ k \notin ToFixedTieDown) THEN k + 1 ELSE k
    IN  ToString(tenths \div 10) \o "." \o ToString(tenths % 10)

FormatDurationRounded(ms) ==
    IF ms < 1000 THEN ToString(ms) \o "ms"
    ELSE IF ms < 60000 THEN ToFixed1(ms) \o "s"
    ELSE ToString(ms \div 60000) \o "m "
         \o ToString(MathRoundDiv1000(ms % 60000)) \o "s"

formatDuration(ms) ==
    IF ms < 1000 THEN ToString(ms) \o "ms"
    ELSE IF ms < 60000 THEN ToFixed1(ms) \o "s"
    ELSE ToString(ms \div 60000) \o "m "
         \o ToString(MathFloorDiv1000(ms % 60000)) \o "s"

TotalDurationFloor(rec) ==
    IF rec = <<>> \/ Len(rec[1].actions) < 2
    THEN DefaultDuration
    ELSE LET acts == rec[1].actions
         IN  MathFloorDiv1000(GetTime(acts[Len(acts)].timestamp) - GetTime(acts[1].timestamp))

ComputeTotalDurationSeconds(rec) ==
    IF rec = <<>> \/ Len(rec[1].actions) < 2
    THEN DefaultDuration
    ELSE LET acts == rec[1].actions
             firstTimestamp == GetTime(acts[1].timestamp)
             lastTimestamp == GetTime(acts[Len(acts)].timestamp)
         IN  MathRoundDiv1000(lastTimestamp - firstTimestamp)

Sum(entries) ==
    LET RECURSIVE Go(_)
        Go(i) == IF i = 0 THEN 0 ELSE entries[i].duration + Go(i - 1)
    IN  Go(Len(entries))

\* percentage = duration / totalDuration * 100, kept as the exact fraction
Percentage(entries, i) ==
    LET totalDuration == Sum(entries)
    IN  IF totalDuration > 0
        THEN [num |-> entries[i].duration * 100, den |-> totalDuration]
        ELSE [num |-> 0, den |-> 1]

ActionTimingsFromFirst(rec) ==
    IF rec = <<>> \/ Len(rec[1].actions) < 2
    THEN <<>>
    ELSE LET acts == rec[1].actions
             result == [i \in 1 .. Len(acts) - 1 |->
                          LET duration == GetTime(acts[i + 1].timestamp)
                                          - GetTime(acts[1].timestamp)
                          IN  [index |-> i, duration |-> duration,
                               durationFormatted |-> formatDuration(duration)]]
         IN  [i \in DOMAIN result |->
                 [index |-> result[i].index, duration |-> result[i].duration,
                  durationFormatted |-> result[i].durationFormatted,
                  percentage |-> Percentage(result, i)]]

\* entry i (from 1) is for the pair actions[i-1], actions[i] of the code's
\* 0-based array, here acts[i], acts[i+1]
ComputeActionTimings(rec) ==
    IF rec = <<>> \/ Len(rec[1].actions) < 2
    THEN <<>>
    ELSE LET acts == rec[1].actions
             result == [i \in 1 .. Len(acts) - 1 |->
                          LET duration == GetTime(acts[i + 1].timestamp)
                                          - GetTime(acts[i].timestamp)
                          IN  [index |-> i, duration |-> duration,
                               durationFormatted |-> formatDuration(duration)]]
         IN  [i \in DOMAIN result |->
                 [index |-> result[i].index, duration |-> result[i].duration,
                  durationFormatted |-> result[i].durationFormatted,
                  percentage |-> Percentage(result, i)]]

\* StepCard / ActionItem: getTimeElapsed; Null when nothing is shown
getTimeElapsed(hasPrevious, previousActionTimestamp, timestamp) ==
    IF ~hasPrevious THEN Null
    ELSE LET diffMs == GetTime(timestamp) - GetTime(previousActionTimestamp)
         IN  IF diffMs < 0 THEN Null
             ELSE IF diffMs < 1000 THEN ToString(diffMs) \o "ms"
             ELSE IF diffMs < 60000 THEN ToFixed1(diffMs) \o " seconds"
             ELSE ToString(diffMs \div 60000) \o "m "
                  \o ToString(MathFloorDiv1000(diffMs % 60000)) \o "s"

\* a number that need not be an integer, as the exact fraction num / den
Frac(num, den) == [num |-> num, den |-> den]

\* StepCard: getTimeElapsedPercentage
getTimeElapsedPercentage(hasPrevious, previousActionTimestamp, timestamp) ==
    IF ~hasPrevious THEN Frac(0, 1)
    ELSE LET prevTime == GetTime(previousActionTimestamp)
             currentTime == GetTime(timestamp)
             diffMs == currentTime - prevTime
             maxMs == 60000
         IN  IF diffMs <= 0 THEN Frac(0, 1)
             ELSE IF diffMs < 1000 THEN Frac(1 * 1000 + diffMs * 9, 1000)
             ELSE IF diffMs < 5000 THEN Frac(10 * 4000 + (diffMs - 1000) * 20, 4000)
             ELSE IF diffMs < 15000 THEN Frac(30 * 10000 + (diffMs - 5000) * 30, 10000)
             ELSE IF diffMs < 30000 THEN Frac(60 * 15000 + (diffMs - 15000) * 25, 15000)
             ELSE IF (diffMs - 30000) * 15 >= 15 * (maxMs - 30000)
                  THEN Frac(85 + 15, 1)
                  ELSE Frac(85 * (maxMs - 30000) + (diffMs - 30000) * 15, maxMs - 30000)

\* the step cards rendered for the recording, one per action
StepCards(rec) ==
    IF rec = <<>> THEN <<>>
    ELSE LET acts == rec[1].actions
         IN  [i \in DOMAIN acts |->
                 getTimeElapsed(i > 1, IF i > 1 THEN acts[i - 1].timestamp ELSE 0,
                                acts[i].timestamp)]

StepWeights(rec) ==
    IF rec = <<>> THEN <<>>
    ELSE LET acts == rec[1].actions
         IN  [i \in DOMAIN acts |->
                 getTimeElapsedPercentage(i > 1, IF i > 1 THEN acts[i - 1].timestamp ELSE 0,
                                          acts[i].timestamp)]

\* fetchRecording settles: setRecording(data), and the render that follows
FetchRecording ==
    /\ recording = <<>>
    /\ \E acts \in TimelineRecordings :
          LET rec == << [actions |-> acts] >>
          IN  /\ recording' = rec
              /\ totalDurationSeconds' = ComputeTotalDurationSeconds(rec)
              /\ actionTimings' = ComputeActionTimings(rec)
              /\ stepElapsed' = StepCards(rec)
              /\ stepWeight' = StepWeights(rec)
    /\ UNCHANGED <<recVars, storeVars, pdfVars, descVars>>

\* the fetch fails (404 or network): recording stays null
FetchRecordingFails ==
    /\ recording = <<>>
    /\ recording' = recording
    /\ totalDurationSeconds' = ComputeTotalDurationSeconds(recording)
    /\ actionTimings' = ComputeActionTimings(recording)
    /\ stepElapsed' = StepCards(recording)
    /\ stepWeight' = StepWeights(recording)
    /\ UNCHANGED <<recVars, storeVars, pdfVars, descVars>>

\* SharedRecording: exportData of exportToJson
SharedExportData(rec, ts) ==
    [k \in {"timestamp", "actions"} \cup (DOMAIN rec \cap {"title", "description"}) |->
        IF k = "timestamp" THEN ts
        ELSE IF k = "actions" THEN rec.actions
        ELSE rec[k]]

\* SharedRecording: exportToJson, the page's JSON button
SharedExportToJson ==
    /\ IF recording = <<>>
       THEN UNCHANGED sink
       ELSE sink' = [content |-> JsonStringify(SharedExportData(recording[1], now)),
                     ext |-> "json", mime |-> "application/json"]
    /\ lastOp' = NoOp("sharedExportToJson")
    /\ UNCHANGED <<isRecording, actions, title, description, saveDialogOpen,
                   selectedRecording, showCaptureModal, capturedHtml, now>>
    /\ UNCHANGED triggeredRecording
    /\ UNCHANGED <<storeVars, pdfVars, tlVars, descVars>>

InitTimeline ==
    /\ recording = <<>>
    /\ totalDurationSeconds = ComputeTotalDurationSeconds(<<>>)
    /\ actionTimings = ComputeActionTimings(<<>>)
    /\ stepElapsed = StepCards(<<>>)
    /\ stepWeight = StepWeights(<<>>)

NextTimeline ==
    \/ FetchRecording
    \/ FetchRecordingFails
    \/ SharedExportToJson

----------------------------------------------------------------------------
(* lib/aiDescriber.ts and server/routes.ts: the fallback descriptions and  *)
(* generateActionDescription; ActionsList.tsx: the ActionItem that shows   *)
(* the description of the list's last action.                              *)

Text20 == "ABCDEFGHIJKLMNOPQRST"

Text21 == "ABCDEFGHIJKLMNOPQRSTU"

DescribeTexts == {"", "OK", Text20, Text21}

\* elements as trackMouseClicks stores them, and with fields left out
DescribeElements ==
    { Restrict(full, S) :
        full \in [id : {"", "submit"}, text : DescribeTexts, tagName : {"", "BUTTON"}],
        S \in {{"id", "text", "tagName"}, {"text", "tagName"}, {}} }

DescribePoints == { [x |-> 10, y |-> 20], [x |-> 0, y |-> 0] }

\* actions that recordedActionSchema accepts
DescribeActions ==
    { Click(0, xy, el) : xy \in DescribePoints, el \in DescribeElements }
    \cup { [type |-> "click", timestamp |-> 0, element |-> el] : el \in DescribeElements }
    \cup { [type |-> "click", timestamp |-> 0, coordinates |-> xy] : xy \in DescribePoints }
    \cup { [type |-> "click", timestamp |-> 0] }
    \cup { TypeText(0, v) : v \in {"", "a"} }
    \cup { [type |-> "type", timestamp |-> 0] }
    \cup { Capture(0, html) : html \in {"", ScreenshotAreaHtml} }
    \cup { [type |-> "capture", timestamp |-> 0] }

\* the DOM elements a click can land on: id, trimmed innerText, tagName
DescribeTargets ==
    [id : {"", "submit"}, text : DescribeTexts, tagName : {"BUTTON"}]

\* ${n || 0}: 0 and undefined both print as 0
CoordinateOrZero(action, axis) ==
    IF "coordinates" \in DOMAIN action
    THEN ToString(action.coordinates[axis])
    ELSE "0"

\* aiDescriber.ts: getFallbackDescription
getFallbackDescription(action) ==
    CASE action.type = "click" ->
            "Click on the " \o ElementInfo(action) \o " at position ("
            \o CoordinateOrZero(action, "x") \o ", "
            \o CoordinateOrZero(action, "y") \o ")"
      [] action.type = "type" ->
            "Type \"" \o (IF "text" \in DOMAIN action THEN action.text ELSE "")
            \o "\" in the input field"
      [] action.type = "capture" ->
            "Capture the current state of the page ("
            \o ToString(IF "content" \in DOMAIN action THEN Len(action.content) ELSE 0)
            \o " characters)"
      [] OTHER -> "Perform action: " \o action.type

\* routes.ts: getFallbackDescription
ServerFallbackDescription(action) ==
    CASE action.type = "click" ->
            "Click on the " \o ElementInfo(action) \o " at position ("
            \o CoordinateText(action, "x") \o ", "
            \o CoordinateText(action, "y") \o ")"
      [] action.type = "type" ->
            "Type \"" \o (IF "text" \in DOMAIN action THEN action.text ELSE "undefined")
            \o "\" in the input field"
      [] action.type = "capture" ->
            "Capture the current state of the page ("
            \o ToString(IF "content" \in DOMAIN action THEN Len(action.content) ELSE 0)
            \o " characters)"
      [] OTHER -> "Perform action: " \o action.type

\* How a describe request can end: apiRequest throws, the status is not OK,
\* response.json() throws, the body has no description, the body carries the
\* model's text, or the body carries the server's own fallback.
RequestOutcomes == {"networkError", "notOk", "unparsable", "empty", "ai", "serverFallback"}

\* POST /api/describe-action: the description of a 200 response
ServiceDescription(action, requestOutcome) ==
    IF requestOutcome = "ai"
    THEN "AI: " \o ServerFallbackDescription(action)
    ELSE ServerFallbackDescription(action)

Returned(value) == [state |-> "resolved", value |-> value]

Thrown == [state |-> "rejected", value |-> Null]

\* the try block of generateActionDescription
TryDescribe(action, requestOutcome) ==
    CASE requestOutcome \in {"networkError", "notOk", "unparsable"} -> Thrown
      [] requestOutcome = "empty" -> Returned(getFallbackDescription(action))
      [] OTHER -> Returned(ServiceDescription(action, requestOutcome))

generateActionDescriptionNoCatch(action, keySet, requestOutcome) ==
    IF ~keySet
    THEN Returned(getFallbackDescription(action))
    ELSE TryDescribe(action, requestOutcome)

\* aiDescriber.ts: generateActionDescription, as the promise it returns settles
generateActionDescription(action, keySet, requestOutcome) ==
    IF ~keySet
    THEN Returned(getFallbackDescription(action))
    ELSE IF TryDescribe(action, requestOutcome).state = "rejected"
    THEN Returned(getFallbackDescription(action))
    ELSE TryDescribe(action, requestOutcome)

DescribeFrame == UNCHANGED <<recVars, storeVars, pdfVars, tlVars>>

\* the actions posted to the describe endpoint
PostedActions ==
    { [type |-> "click", timestamp |-> 1, coordinates |-> [x |-> 1, y |-> 2]],
      ClickNoCoordinates, ClickNoY, UnknownType }

\* what happens past validation: OPENAI_API_KEY is not set, the completion has
\* content, the completion has none, the OpenAI call throws
EndpointOutcomes == {"noKey", "ai", "emptyContent", "openaiError"}

DescribeReply(action, status, body) ==
    [route |-> "describe", id |-> 0, status |-> status, body |-> body,
     request |-> action]

\* POST /api/describe-action
PostDescribeAction ==
    /\ \E action \in PostedActions, endpointOutcome \in EndpointOutcomes :
          LET reply ==
                 IF ~SchemaAccepts(action)
                 THEN DescribeReply(action, 400, InvalidRequest)
                 ELSE CASE endpointOutcome = "noKey" ->
                              DescribeReply(action, 400, "OpenAI API key not configured")
                        [] endpointOutcome = "openaiError" ->
                              DescribeReply(action, 500, "Failed to generate description")
                        [] endpointOutcome = "ai" ->
                              DescribeReply(action, 200,
                                  [description |-> ServiceDescription(action, "ai")])
                        [] OTHER ->
                              DescribeReply(action, 200,
                                  [description |->
                                      ServiceDescription(action, "serverFallback")])
          IN  /\ response' = reply
              /\ memResponse' = reply
    /\ UNCHANGED <<sessions, memSessions, recVars, pdfVars, tlVars, descVars>>

ItemUnchanged ==
    UNCHANGED <<aiEnabled, itemAction, itemDescription, itemLoading, effectPending,
                requests, replacements>>

\* trackMouseClicks on a target of the page: the action it hands to addAction
TrackDescribedClick ==
    /\ descTarget = <<>>
    /\ \E xy \in DescribePoints, target \in DescribeTargets :
          /\ descAction' = <<Click(0, xy, target)>>
          /\ descTarget' = <<target>>
    /\ tableDesc' = Null
    /\ fallbackDesc' = Null
    /\ serverFallbackDesc' = Null
    /\ settled' = <<>>
    /\ UNCHANGED apiKeySet
    /\ ItemUnchanged
    /\ DescribeFrame

\* exportToPdf / exportToHtml: the description of the action's table row
SynthesizeRow ==
    /\ descAction # <<>>
    /\ tableDesc' = ActionDesc(descAction[1])
    /\ UNCHANGED <<descAction, descTarget, fallbackDesc, serverFallbackDesc, settled,
                   apiKeySet>>
    /\ ItemUnchanged
    /\ DescribeFrame

\* a call of the client's getFallbackDescription
CallFallback ==
    /\ descAction # <<>>
    /\ fallbackDesc' = getFallbackDescription(descAction[1])
    /\ UNCHANGED <<descAction, descTarget, tableDesc, serverFallbackDesc, settled,
                   apiKeySet>>
    /\ ItemUnchanged
    /\ DescribeFrame

\* a call of the server's getFallbackDescription
CallServerFallback ==
    /\ descAction # <<>>
    /\ serverFallbackDesc' = ServerFallbackDescription(descAction[1])
    /\ UNCHANGED <<descAction, descTarget, tableDesc, fallbackDesc, settled, apiKeySet>>
    /\ ItemUnchanged
    /\ DescribeFrame

\* initializeOpenAI with a key that starts with sk-
InitializeOpenAI ==
    /\ ~apiKeySet
    /\ apiKeySet' = TRUE
    /\ UNCHANGED <<descAction, descTarget, tableDesc, fallbackDesc, serverFallbackDesc,
                   settled>>
    /\ ItemUnchanged
    /\ DescribeFrame

\* a call of generateActionDescription, up to the settling of its promise
CallGenerate ==
    /\ descAction # <<>>
    /\ \E requestOutcome \in RequestOutcomes :
          settled' = <<[action |-> descAction[1], keySet |-> apiKeySet,
                        requestOutcome |-> requestOutcome,
                        promise |-> generateActionDescription(descAction[1], apiKeySet,
                                                              requestOutcome)]>>
    /\ UNCHANGED <<descAction, descTarget, tableDesc, fallbackDesc, serverFallbackDesc,
                   apiKeySet>>
    /\ ItemUnchanged
    /\ DescribeFrame

MaxReplacements == 2

\* the actions the last item of the list can hold when it mounts
ItemActions ==
    { TypeText(0, "a"),
      Click(0, [x |-> 10, y |-> 20], [id |-> "submit", text |-> "Submit", tagName |-> "BUTTON"]) }

\* the values of the input at the key-ups that follow
ItemInputValues == {"ab", "abc"}

DescribeUnchanged ==
    UNCHANGED <<descAction, descTarget, tableDesc, fallbackDesc, serverFallbackDesc,
                settled>>

\* ActionItem: the useEffect on [action, aiEnabled, toast]
RunEffect ==
    /\ effectPending
    /\ itemAction # <<>>
    /\ effectPending' = FALSE
    /\ IF aiEnabled /\ apiKeySet
       THEN /\ itemDescription' = Null
            /\ itemLoading' = TRUE
            /\ requests' = Append(requests, itemAction[1])
       ELSE /\ itemDescription' = getFallbackDescription(itemAction[1])
            /\ UNCHANGED <<itemLoading, requests>>
    /\ UNCHANGED <<apiKeySet, aiEnabled, itemAction, replacements>>
    /\ DescribeUnchanged
    /\ DescribeFrame

\* the promise of one generateActionDescription call settles: then / catch /
\* finally of the effect that made the call, closed over that effect's action
SettleRequest ==
    /\ \E i \in DOMAIN requests, requestOutcome \in RequestOutcomes :
          LET action == requests[i]
              promise == generateActionDescription(action, TRUE, requestOutcome)
          IN  /\ itemDescription' = IF promise.state = "resolved"
                                    THEN promise.value
                                    ELSE getFallbackDescription(action)
              /\ requests' = SubSeq(requests, 1, i - 1)
                             \o SubSeq(requests, i + 1, Len(requests))
    /\ itemLoading' = FALSE
    /\ UNCHANGED <<apiKeySet, aiEnabled, itemAction, effectPending, replacements>>
    /\ DescribeUnchanged
    /\ DescribeFrame

\* addAction coalesces a key-up into the list's last action: the item of that
\* index (key={index}) is rendered again with the new action
ReplaceItemAction ==
    /\ itemAction # <<>>
    /\ replacements < MaxReplacements
    /\ \E value \in ItemInputValues :
          LET next == AddAction(<<itemAction[1]>>, TypeText(0, value))
          IN  /\ Len(next) = 1
              /\ itemAction' = <<next[1]>>
    /\ effectPending' = TRUE
    /\ replacements' = replacements + 1
    /\ UNCHANGED <<apiKeySet, aiEnabled, itemDescription, itemLoading, requests>>
    /\ DescribeUnchanged
    /\ DescribeFrame

NextItem ==
    \/ InitializeOpenAI
    \/ RunEffect
    \/ SettleRequest
    \/ ReplaceItemAction

NextDescribe ==
    \/ TrackDescribedClick
    \/ SynthesizeRow
    \/ CallFallback
    \/ CallServerFallback
    \/ InitializeOpenAI
    \/ CallGenerate

InitDescribeIdle ==
    /\ descAction = <<>>
    /\ descTarget = <<>>
    /\ tableDesc = Null
    /\ fallbackDesc = Null
    /\ serverFallbackDesc = Null
    /\ settled = <<>>
    /\ apiKeySet = FALSE

InitItemIdle ==
    /\ aiEnabled = FALSE
    /\ itemAction = <<>>
    /\ itemDescription = Null
    /\ itemLoading = FALSE
    /\ effectPending = FALSE
    /\ requests = <<>>
    /\ replacements = 0

----------------------------------------------------------------------------
(* Specifications: one per part of the program *)

Init ==
    /\ InitRecorder /\ InitStore /\ InitPdf /\ InitTimeline
    /\ InitDescribeIdle /\ InitItemIdle

\* the recorder page
Next == NextRecorder

Spec == Init /\ [][Next]_vars

\* the recording-session store behind the routes
SpecStore == Init /\ [][NextStore]_vars

\* every route of the server, over both implementations of the store
NextRoutes ==
    \/ NextStore
    \/ GetRecordingSessionById
    \/ PostDescribeAction

SpecRoutes == Init /\ [][NextRoutes]_vars

\* a PDF export of a loaded recording
InitPdfExport ==
    /\ InitStore /\ InitPdf /\ InitTimeline
    /\ InitDescribeIdle /\ InitItemIdle
    /\ isRecording = FALSE
    /\ actions \in PdfSequences
    /\ title = ""
    /\ description = ""
    /\ saveDialogOpen = TRUE
    /\ selectedRecording = "r1"
    /\ showCaptureModal = FALSE
    /\ capturedHtml = ""
    /\ now = 0
    /\ sink = [content |-> <<>>, ext |-> "", mime |-> ""]
    /\ lastOp = NoOp("selectRecording")
    /\ triggeredRecording = FALSE

SpecPdf == InitPdfExport /\ [][NextPdf]_vars

\* the PDF export with the page live under it: events arrive while the
\* export is suspended at an await
NextPdfLive ==
    \/ NextPdf
    \/ StartRecording
    \/ StopRecording
    \/ TrackMouseClicks
    \/ SelectRecording

SpecPdfLive == InitPdfExport /\ [][NextPdfLive]_vars

\* the save dialog of the recorder page, over a recorded or loaded sequence
ExportSequences ==
    { <<>>,
      << Click(0, [x |-> 10, y |-> 20], [id |-> "submit", text |-> "Submit", tagName |-> "BUTTON"]),
         TypeText(1, "abc"),
         Capture(1, ScreenshotAreaHtml) >>,
      << [type |-> "click", timestamp |-> 5, coordinates |-> [x |-> 1, y |-> 2],
          description |-> "Press the button"],
         [type |-> "click", timestamp |-> 5, coordinates |-> [x |-> 0, y |-> 0],
          element |-> [tagName |-> "A"]],
         [type |-> "type", timestamp |-> 3, text |-> "", description |-> ""] >>,
      << Capture(2, ""), Capture(2, "") >>,
      << TypeText(0, "x") >> }

InitExport ==
    /\ InitStore /\ InitPdf /\ InitTimeline
    /\ InitDescribeIdle /\ InitItemIdle
    /\ isRecording \in BOOLEAN
    /\ actions \in ExportSequences
    /\ title = ""
    /\ description = ""
    /\ saveDialogOpen = FALSE
    /\ selectedRecording = Null
    /\ showCaptureModal = FALSE
    /\ capturedHtml = ""
    /\ now \in 0 .. MaxClock
    /\ sink = [content |-> <<>>, ext |-> "", mime |-> ""]
    /\ lastOp = NoOp("init")
    /\ triggeredRecording = FALSE
    /\ triggeredRecording = FALSE

SpecExport == InitExport /\ [][NextExport]_vars

\* the shared-recording page
SpecTimeline == Init /\ [][NextTimeline]_vars

\* the description functions, applied to one action
InitDescribe ==
    /\ InitRecorder /\ InitStore /\ InitPdf /\ InitTimeline /\ InitItemIdle
    /\ descAction \in { <<action>> : action \in DescribeActions }
    /\ descTarget = <<>>
    /\ tableDesc = Null
    /\ fallbackDesc = Null
    /\ serverFallbackDesc = Null
    /\ settled = <<>>
    /\ apiKeySet = FALSE

SpecDescribe == InitDescribe /\ [][NextDescribe]_vars

\* the last item of the actions list, from its mount
InitItem ==
    /\ InitRecorder /\ InitStore /\ InitPdf /\ InitTimeline /\ InitDescribeIdle
    /\ aiEnabled \in BOOLEAN
    /\ itemAction \in { <<action>> : action \in ItemActions }
    /\ itemDescription = Null
    /\ itemLoading = FALSE
    /\ effectPending = TRUE
    /\ requests = <<>>
    /\ replacements = 0

SpecItem == InitItem /\ [][NextItem]_vars


----------------------------------------------------------------------------
(* Properties *)

LastOf(seq) == seq[Len(seq)]

\* C1: when the last element of the sequence is a TypeText action, addAction
\* of a new TypeText action keeps the length, makes the new action (with its
\* own text) the last element and leaves every earlier element unchanged.
Coalescing ==
    (/\ lastOp.op = "addAction"
     /\ lastOp.arg.type = "type"
     /\ Len(lastOp.prev) > 0
     /\ LastOf(lastOp.prev).type = "type")
    => /\ Len(actions) = Len(lastOp.prev)
       /\ LastOf(actions) = lastOp.arg
       /\ LastOf(actions).text = lastOp.arg.text
       /\ \A i \in 1 .. Len(lastOp.prev) - 1 : actions[i] = lastOp.prev[i]

\* TypeText("abc") has just replaced TypeText("ab") in a sequence of length 1
CoalescingWitness ==
    /\ lastOp.op = "addAction"
    /\ Len(lastOp.prev) = 1
    /\ lastOp.prev[1].type = "type"
    /\ lastOp.prev[1].text = "ab"
    /\ lastOp.arg.type = "type"
    /\ lastOp.arg.text = "abc"
    /\ Len(actions) = 1
    /\ actions[1].text = "abc"

\* C2: addAction of a Click or a Capture, and of a TypeText after a Click, a
\* Capture or nothing, grows the sequence by exactly one, the new action
\* last, and leaves the existing elements unchanged.
NonCoalescing ==
    (/\ lastOp.op = "addAction"
     /\ \/ lastOp.arg.type \in {"click", "capture"}
        \/ Len(lastOp.prev) = 0
        \/ LastOf(lastOp.prev).type # "type")
    => /\ Len(actions) = Len(lastOp.prev) + 1
       /\ LastOf(actions) = lastOp.arg
       /\ \A i \in 1 .. Len(lastOp.prev) : actions[i] = lastOp.prev[i]

\* Click, TypeText("x"), and the same Click again: three elements
NonCoalescingWitness ==
    /\ lastOp.op = "addAction"
    /\ Len(actions) = 3
    /\ actions[1].type = "click"
    /\ actions[2].type = "type"
    /\ actions[2].text = "x"
    /\ actions[3] = actions[1]

\* C3: decoding the JSON export gives an actions array equal to the
\* sequence exported: same length, same order, same fields and values.
JsonRoundTrip ==
    (lastOp.op = "exportToJson" /\ Len(actions) > 0)
    => LET decoded == JsonParse(sink.content)
       IN  /\ Len(decoded.actions) = Len(actions)
           /\ \A i \in DOMAIN actions :
                 /\ DOMAIN decoded.actions[i] = DOMAIN actions[i]
                 /\ decoded.actions[i] = actions[i]

\* an export of a sequence with and without the optional fields
JsonRoundTripWitness ==
    /\ lastOp.op = "exportToJson"
    /\ sink.mime = "application/json"
    /\ Len(actions) = 3
    /\ "description" \in DOMAIN actions[1]
    /\ "element" \notin DOMAIN actions[1]
    /\ "element" \in DOMAIN actions[2]

ItemsOn(p, kinds) ==
    {j \in DOMAIN pdfDoc[p] : pdfDoc[p][j].kind \in kinds}

PagesWith(kind, step) ==
    {p \in DOMAIN pdfDoc :
        \E j \in DOMAIN pdfDoc[p] :
            pdfDoc[p][j].kind = kind /\ pdfDoc[p][j].step = step}

CountOf(kind, step) ==
    LET RECURSIVE OnPage(_, _)
        OnPage(p, j) ==
            IF j = 0 THEN 0
            ELSE (IF pdfDoc[p][j].kind = kind /\ pdfDoc[p][j].step = step THEN 1 ELSE 0)
                 + OnPage(p, j - 1)
        RECURSIVE Upto(_)
        Upto(p) == IF p = 0 THEN 0 ELSE OnPage(p, Len(pdfDoc[p])) + Upto(p - 1)
    IN  Upto(Len(pdfDoc))

StepOfCapture(k) == CaptureActions(pdfActions)[k]

\* C4: whichever captures fail to render, the export saves the document;
\* every capture that rendered has its captioned image, every capture that
\* failed has exactly one error marker in a slot of its own and no image, and
\* no capture that rendered shares its page with an error marker.
CaptureIsolation ==
    /\ pdfPc = "failed" => outcome = <<>>
    /\ pdfPc = "done" =>
          \A k \in DOMAIN outcome :
             LET step == StepOfCapture(k)
             IN  IF outcome[k] = "ok"
                 THEN \E p \in PagesWith("image", step) :
                         /\ p \in PagesWith("caption", step)
                         /\ ItemsOn(p, {"error"}) = {}
                 ELSE /\ CountOf("error", step) = 1
                      /\ CountOf("image", step) = 0
                      /\ \A p \in PagesWith("error", step) :
                            \A j \in DOMAIN pdfDoc[p] :
                               pdfDoc[p][j].step \in {0, step}

\* C5: every stored session has actionsCount = length(actions) and
\* hasCaptures = (some action is a capture).
DerivedFields ==
    \A id \in DOMAIN sessions :
       /\ sessions[id].actionsCount = Len(sessions[id].actions)
       /\ sessions[id].hasCaptures = SomeCapture(sessions[id].actions)

\* C6: getSharedRecordingSession(id) returns the session exactly when it
\* exists and is shared, and the route answers a missing and an unshared
\* session with the same 404.
SharedLookup ==
    /\ \A id \in SessionIds :
          LET found == GetSharedRecordingSession(id)
              shared == id \in DOMAIN sessions /\ sessions[id].isShared
          IN  /\ (found # <<>>) <=> shared
              /\ shared => found = <<sessions[id]>>
    /\ response.route = "shared" =>
          IF response.id \in DOMAIN sessions /\ sessions[response.id].isShared
          THEN response.status = 200 /\ response.body = sessions[response.id]
          ELSE response.status = 404 /\ response.body = SharedNotFound

\* the route has just answered 404 for a session that exists but is not shared
SharedLookupWitness ==
    /\ response.route = "shared"
    /\ response.status = 404
    /\ response.id \in DOMAIN sessions
    /\ ~sessions[response.id].isShared

NegativeShown(text, d) == text = ToString(d) \o "ms"

RecordedActions == IF recording = <<>> THEN <<>> ELSE recording[1].actions

\* C8: totalDurationSeconds is 30 for fewer than 2 actions, and otherwise
\* (timestamp(last) - timestamp(first)) / 1000 rounded to the nearest
\* integer, halves up, whatever the actions in between.
TotalDuration ==
    IF Len(RecordedActions) < 2
    THEN totalDurationSeconds = 30
    ELSE LET diff == LastOf(RecordedActions).timestamp - RecordedActions[1].timestamp
         IN  /\ 2000 * totalDurationSeconds - 1000 <= 2 * diff
             /\ 2 * diff < 2000 * totalDurationSeconds + 1000

\* first and last are 1500 ms apart, with a later instant in between
TotalDurationWitness ==
    /\ Len(RecordedActions) = 3
    /\ RecordedActions[3].timestamp - RecordedActions[1].timestamp = 1500
    /\ RecordedActions[2].timestamp > RecordedActions[3].timestamp
    /\ totalDurationSeconds = 2

Tenth(n) == ToString(n \div 10) \o "." \o ToString(n % 10)

\* text is d, a duration in ms, in the format of the claim, the seconds
\* written with the given unit
Formatted(text, d, unit) ==
    IF d < 1000 THEN text = ToString(d) \o "ms"
    ELSE IF d < 60000
         THEN \E n \in {d \div 100, d \div 100 + 1} :
                 /\ 100 * n - d <= 50
                 /\ d - 100 * n <= 50
                 /\ text = Tenth(n) \o unit
         ELSE \E m \in {d \div 60000}, sec \in 0 .. 59 :
                 /\ 60000 * m + 1000 * sec <= d
                 /\ d < 60000 * m + 1000 * sec + 1000
                 /\ text = ToString(m) \o "m " \o ToString(sec) \o "s"

RECURSIVE GCD(_, _)
GCD(a, b) == IF b = 0 THEN a ELSE GCD(b, a % b)

\* the fraction in lowest terms
Reduced(f) ==
    LET g == GCD(IF f.num < 0 THEN 0 - f.num ELSE f.num, f.den)
    IN  Frac(f.num \div g, f.den \div g)

\* a <= b, comparing the integer parts and then the fractional parts
FracLeq(a, b) ==
    LET x == Reduced(a)
        y == Reduced(b)
    IN  \/ x.num \div x.den < y.num \div y.den
        \/ /\ x.num \div x.den = y.num \div y.den
           /\ (x.num % x.den) * y.den <= (y.num % y.den) * x.den

FracEq(a, b) == Reduced(a) = Reduced(b)

WeightInRange(w) == FracLeq(Frac(1, 1), w) /\ FracLeq(w, Frac(100, 1))

\* C11: the visual weight computed for every adjacent pair of actions, in
\* the step card and in the steps timeline, lies in [1, 100].
WeightRange ==
    /\ \A i \in DOMAIN stepWeight : i > 1 => WeightInRange(stepWeight[i])
    /\ \A i \in DOMAIN actionTimings : WeightInRange(actionTimings[i].percentage)

\* the value at d of the line through (lo, wlo) and (hi, whi)
Interpolated(d, lo, hi, wlo, whi) ==
    Frac(wlo * (hi - lo) + (d - lo) * (whi - wlo), hi - lo)

\* the scale of the claim: five buckets, and 100 beyond 60 s
PiecewiseWeight(d) ==
    IF d < 1000 THEN Interpolated(d, 0, 1000, 1, 10)
    ELSE IF d < 5000 THEN Interpolated(d, 1000, 5000, 10, 30)
    ELSE IF d < 15000 THEN Interpolated(d, 5000, 15000, 30, 60)
    ELSE IF d < 30000 THEN Interpolated(d, 15000, 30000, 60, 85)
    ELSE IF d <= 60000 THEN Interpolated(d, 30000, 60000, 85, 100)
    ELSE Frac(100, 1)

\* C12: for every duration d >= 0 between a step and the step before it,
\* getTimeElapsedPercentage is the linear interpolation of d's bucket, and
\* 100 for d > 60000.
PiecewiseScale ==
    \A i \in DOMAIN stepWeight :
       i > 1 =>
          LET d == RecordedActions[i].timestamp - RecordedActions[i - 1].timestamp
          IN  d >= 0 => FracEq(stepWeight[i], PiecewiseWeight(d))

StartsEmpty == lastOp.op = "startRecording" => actions = <<>>

\* C15: once recording has stopped, or a session has just been loaded, no
\* click, key-release or capture-save changes the action sequence; only a
\* start or another load may come before it changes.
FrozenSequence ==
    [][(~isRecording \/ lastOp.op = "selectRecording")
          => \/ actions' = actions
             \/ lastOp'.op \in {"startRecording", "selectRecording"}]_vars

\* C16: stopRecording takes Recording to Idle and leaves the action sequence
\* as it was; neither start nor stop touches the title, the description or
\* the selected session.
StopKeepsSequence ==
    /\ [][lastOp'.op = "stopRecording" /\ lastOp' # lastOp
             => /\ isRecording /\ ~isRecording'
                /\ actions' = actions
                /\ \A i \in DOMAIN actions : actions'[i] = actions[i]]_vars
    /\ [][isRecording' # isRecording
             => UNCHANGED <<title, description, selectedRecording>>]_vars

\* recording has just stopped with the two actions of a loaded session
StopKeepsSequenceWitness ==
    /\ lastOp.op = "stopRecording"
    /\ ~isRecording
    /\ selectedRecording = "r1"
    /\ Len(actions) = 2


\* C17: an export of an empty action sequence hands nothing to the save
\* sink: whatever the sink holds was exported from a non-empty sequence.
ExportRefusesEmpty ==
    sink.ext # "" => Len(JsonParse(sink.content).actions) > 0


CaptureStepsDrawn ==
    UNION { {pdfDoc[p][j].step : j \in DOMAIN pdfDoc[p]} : p \in DOMAIN pdfDoc } \ {0}

\* C18: whatever happens to the page's action sequence while the export is
\* suspended, the export keeps the sequence it was invoked on, and the
\* finished document's table rows and capture pages are those of that
\* sequence.
ExportSnapshot ==
    /\ [][pdfPc = "idle" /\ pdfPc' # "idle" => pdfActions' = actions]_vars
    /\ [][pdfPc # "idle" => pdfActions' = pdfActions]_vars
    /\ [](pdfPc = "done" =>
            /\ Len(pdfRows) = Len(pdfActions)
            /\ \A i \in DOMAIN pdfRows :
                  /\ pdfRows[i][1] = i
                  /\ pdfRows[i][2] = pdfActions[i].type
                  /\ pdfRows[i][4] = ToLocaleString(pdfActions[i].timestamp)
            /\ CaptureStepsDrawn =
                  {i \in DOMAIN pdfActions :
                      pdfActions[i].type = "capture" /\ pdfActions[i].content # ""})

\* an export has finished after the page's sequence grew by a click
ExportSnapshotWitness ==
    /\ pdfPc = "done"
    /\ Len(actions) > Len(pdfActions)
    /\ Len(pdfRows) = 2
    /\ CaptureStepsDrawn = {2}
    /\ lastOp.op = "addAction"


NonEmptyCaptures ==
    {i \in DOMAIN pdfActions :
        pdfActions[i].type = "capture" /\ pdfActions[i].content # ""}

StepsOn(p) == {pdfDoc[p][j].step : j \in DOMAIN pdfDoc[p]} \ {0}

\* C19: in a finished export, the output of every capture after the first,
\* captioned image or error marker, is on a page that holds no output of an
\* earlier capture.
PageBreakPolicy ==
    pdfPc = "done" =>
       \A k \in DOMAIN outcome :
          k >= 2 =>
             \A p \in DOMAIN pdfDoc :
                StepOfCapture(k) \in StepsOn(p) =>
                   \A earlier \in 1 .. k - 1 : StepOfCapture(earlier) \notin StepsOn(p)

\* C20: wherever the capture loop stands, every image in the document comes
\* after the caption and the timestamp of its step on the same page, and its
\* step number is the 1-based position, in the whole action sequence, of the
\* capture that rendered.
CaptionBeforeImage ==
    \A p \in DOMAIN pdfDoc :
       \A j \in DOMAIN pdfDoc[p] :
          pdfDoc[p][j].kind = "image" =>
             LET step == pdfDoc[p][j].step
                 nth == Cardinality({i \in NonEmptyCaptures : i <= step})
             IN  /\ \E c \in 1 .. j - 1 :
                       pdfDoc[p][c].kind = "caption" /\ pdfDoc[p][c].step = step
                 /\ \E t \in 1 .. j - 1 :
                       pdfDoc[p][t].kind = "timestamp" /\ pdfDoc[p][t].step = step
                 /\ step \in NonEmptyCaptures
                 /\ nth \in DOMAIN outcome
                 /\ outcome[nth] = "ok"

\* two captures around a click, both rendered: images of steps 1 and 3
CaptionBeforeImageWitness ==
    /\ pdfPc = "done"
    /\ Len(pdfActions) = 3
    /\ pdfActions[2].type = "click"
    /\ outcome = <<"ok", "ok">>
    /\ PagesWith("image", 1) # {}
    /\ PagesWith("image", 3) # {}


\* what the element of a click holds under a field, "" when it holds nothing
Held(action, field) ==
    IF "element" \notin DOMAIN action THEN ""
    ELSE IF field \notin DOMAIN action.element THEN ""
    ELSE action.element[field]

\* the first 20 characters of a text, with the ellipsis only for a longer one
CutTo20(text) ==
    IF Len(text) <= 20 THEN text ELSE SubSeq(text, 1, 20) \o "..."

ExpectedReference(action) ==
    CASE Held(action, "id") # "" -> "#" \o Held(action, "id")
      [] Held(action, "id") = "" /\ Held(action, "text") # "" ->
            "\"" \o CutTo20(Held(action, "text")) \o "\""
      [] Held(action, "id") = "" /\ Held(action, "text") = ""
         /\ Held(action, "tagName") # "" -> Held(action, "tagName")
      [] OTHER -> "element"

\* C21: for every Click action (with coordinates) the table description is
\* "Click on <ref> at (<x>, <y>)", <ref> being "#<id>" for a non-empty id, else
\* the quoted element text cut to 20 characters with "..." only when the text
\* is longer than 20, else the tag name, else "element"; and the element text
\* stored for a clicked target is the target's whole text.
ClickDescriptionReference ==
    /\ (/\ tableDesc # Null
        /\ descAction[1].type = "click"
        /\ "coordinates" \in DOMAIN descAction[1])
       => tableDesc = "Click on " \o ExpectedReference(descAction[1]) \o " at ("
                      \o ToString(descAction[1].coordinates.x) \o ", "
                      \o ToString(descAction[1].coordinates.y) \o ")"
    /\ descTarget # <<>> => descAction[1].element.text = descTarget[1].text

ClickDescriptionReferenceWitness ==
    /\ descTarget # <<>>
    /\ descTarget[1].id = ""
    /\ descTarget[1].text = Text21
    /\ descAction[1].element.text = Text21
    /\ tableDesc = "Click on \"ABCDEFGHIJKLMNOPQRST...\" at (10, 20)"

\* C22: the fallback description of an action is the same string as the
\* description synthesized for its table row, on every call; for a Click on
\* the element with id "submit" at (10, 20) it is "Click on #submit at (10, 20)".
FallbackIsTableDescription ==
    /\ (tableDesc # Null /\ fallbackDesc # Null) => fallbackDesc = tableDesc
    /\ (tableDesc # Null /\ serverFallbackDesc # Null) => serverFallbackDesc = tableDesc
    /\ (/\ fallbackDesc # Null
        /\ descAction[1].type = "click"
        /\ Held(descAction[1], "id") = "submit"
        /\ "coordinates" \in DOMAIN descAction[1]
        /\ descAction[1].coordinates = [x |-> 10, y |-> 20])
       => fallbackDesc = "Click on #submit at (10, 20)"

\* the service supplied a non-empty description
Supplied(call) == call.keySet /\ call.requestOutcome \in {"ai", "serverFallback"}

\* C23: for every action and every outcome of the describe request (key not
\* set, network error, non-OK status, unparsable body, empty description) the
\* promise of generateActionDescription resolves, never rejects, and unless the
\* service supplied a non-empty description its value is the fallback
\* description of the action.
DescribeAlwaysResolves ==
    settled # <<>> =>
        /\ settled[1].promise.state = "resolved"
        /\ settled[1].promise.value # Null
        /\ ~Supplied(settled[1]) =>
              settled[1].promise.value = getFallbackDescription(settled[1].action)

DescribeAlwaysResolvesWitness ==
    /\ settled # <<>>
    /\ settled[1].keySet
    /\ settled[1].requestOutcome = "notOk"
    /\ settled[1].action.type = "click"
    /\ fallbackDesc # Null
    /\ settled[1].promise = [state |-> "resolved", value |-> fallbackDesc]

\* an action the data model allows: a known type, and for a click its
\* coordinates with both x and y
WellFormedAction(action) ==
    /\ action.type \in {"click", "type", "capture"}
    /\ action.type = "click" =>
          /\ "coordinates" \in DOMAIN action
          /\ {"x", "y"} \subseteq DOMAIN action.coordinates

\* C24: a Click without coordinates (or without x or y) and an action of an
\* unknown type are never stored by session create or update and never
\* accepted by the describe-action endpoint.
ValidationRejectsBadClicks ==
    /\ \A id \in DOMAIN sessions : \A i \in DOMAIN sessions[id].actions :
          WellFormedAction(sessions[id].actions[i])
    /\ (response.route = "describe" /\ response.status = 200)
       => WellFormedAction(response.request)

\* C25: in every state reached from the empty sequence by addAction calls the
\* sequence holds no two adjacent TypeText actions, and an addAction leaves the
\* length as it was or one more, never less.
NoAdjacentTypeText ==
    /\ \A i \in 1 .. Len(actions) - 1 :
          ~(actions[i].type = "type" /\ actions[i + 1].type = "type")
    /\ lastOp.op = "addAction" =>
          /\ Len(actions) >= Len(lastOp.prev)
          /\ Len(actions) <= Len(lastOp.prev) + 1

\* a TypeText has just been coalesced into the one that follows a Click
NoAdjacentTypeTextWitness ==
    /\ lastOp.op = "addAction"
    /\ lastOp.arg.type = "type"
    /\ Len(lastOp.prev) = 2
    /\ lastOp.prev[1].type = "click"
    /\ lastOp.prev[2].type = "type"
    /\ Len(actions) = 2
    /\ actions[2] = lastOp.arg

\* the descriptions an item can rightly show for an action: its fallback, or
\* what the service answers to a request for that action
DescriptionsOf(action) ==
    { getFallbackDescription(action) }
    \cup { ServiceDescription(action, served) : served \in {"ai", "serverFallback"} }

\* C26: once no describe request is pending, the description an action-list
\* item displays is a description of the action the item currently holds; a
\* late response for a replaced action never overwrites it.
ItemDescribesItsAction ==
    (/\ itemAction # <<>>
     /\ ~effectPending
     /\ requests = <<>>
     /\ itemDescription # Null)
    => itemDescription \in DescriptionsOf(itemAction[1])

\* C27: the off-screen container appended for a capture is removed from the
\* document body by the time that capture's processing ends, whether its
\* render succeeded or failed; none is attached once the export has finished.
ContainersRemoved ==
    /\ \A c \in bodyContainers : c >= pdfI
    /\ pdfPc = "done" => bodyContainers = {}

StoresInterchangeable ==
    /\ DOMAIN sessions = DOMAIN memSessions
    /\ \A id \in DOMAIN sessions \cap DOMAIN memSessions :
          \A column \in {"title", "description", "actions", "actionsCount",
                         "hasCaptures", "isShared", "shareUrl"} :
             sessions[id][column] = memSessions[id][column]
    /\ response = memResponse
    /\ (response.route = "create" /\ response.status = 201)
       => response.body.isShared = FALSE /\ memResponse.body.isShared = FALSE

\* a step that appends a Capture action
AppendsCapture ==
    /\ lastOp'.op = "addAction"
    /\ lastOp'.arg.type = "capture"
    /\ actions' = Append(actions, lastOp'.arg)

\* C30: a Capture action is appended only when recording was active both when
\* the capture was triggered and when it was saved; a save while Idle appends
\* nothing and closes the dialog; the appended content is the markup
\* serialized at trigger time.
CaptureNeedsRecordingTwice ==
    /\ [][AppendsCapture =>
            /\ showCaptureModal
            /\ isRecording
            /\ triggeredRecording
            /\ LastOf(actions').content = capturedHtml]_vars
    /\ [][(lastOp'.op = "handleSaveCapture" /\ showCaptureModal /\ ~isRecording) =>
            actions' = actions /\ ~showCaptureModal']_vars
====
